---- MODULE Spec2Model ----
(***************************************************************************)
(* Model of scripts/validateImages.ts: the image header reader             *)
(* (getImageDimensions), the recursive asset pass (validateAssetsImages /  *)
(* processDirectory) and the metadata pass (validateMetadataImages), run   *)
(* one after the other by the top-level script.                            *)
(*                                                                         *)
(* Strings are sequences of one-character strings, buffers are sequences   *)
(* of bytes (0..255).  A Node call that throws is the result Throw; an     *)
(* uncaught throw ends the process with status 1.                          *)
(***************************************************************************)
EXTENDS Integers, Sequences, FiniteSets, TLC

\* ------------------------------------------------------------------------
\* Strings (String.prototype.* and node:path as the script uses them)
\* ------------------------------------------------------------------------
UpperCase == <<"A","B","C","D","E","F","G","H","I","J","K","L","M",
               "N","O","P","Q","R","S","T","U","V","W","X","Y","Z">>

LowerCase == <<"a","b","c","d","e","f","g","h","i","j","k","l","m",
               "n","o","p","q","r","s","t","u","v","w","x","y","z">>

Digits == {"0","1","2","3","4","5","6","7","8","9"}

Min(a, b) == IF a <= b THEN a ELSE b

Rep(c, n) == [i \in 1..n |-> c]

toLowerCase(s) ==
    [i \in 1..Len(s) |->
        IF \E k \in 1..26 : UpperCase[k] = s[i]
        THEN LowerCase[CHOOSE k \in 1..26 : UpperCase[k] = s[i]]
        ELSE s[i]]

\* 0 when sub does not occur in s, else the first 1-based position
indexOf(s, sub) ==
    LET hits == {i \in 1..(Len(s) - Len(sub) + 1) :
                    SubSeq(s, i, i + Len(sub) - 1) = sub}
    IN IF hits = {} THEN 0 ELSE CHOOSE i \in hits : \A j \in hits : i <= j

includes(s, sub) == indexOf(s, sub) # 0

\* String.prototype.replace with a string pattern: the first occurrence only
replace(s, sub, by) ==
    LET i == indexOf(s, sub)
    IN IF i = 0 THEN s
       ELSE SubSeq(s, 1, i - 1) \o by \o SubSeq(s, i + Len(sub), Len(s))

endsWith(s, suf) ==
    /\ Len(suf) <= Len(s)
    /\ SubSeq(s, Len(s) - Len(suf) + 1, Len(s)) = suf

\* path.extname of a name without separators: from the last dot on, empty
\* when there is no dot or the only dot leads the name
extname(name) ==
    LET dots == {i \in 1..Len(name) : name[i] = "."}
        last == CHOOSE i \in dots : \A j \in dots : j <= i
    IN IF dots = {} THEN <<>>
       ELSE IF last = 1 THEN <<>>
       ELSE SubSeq(name, last, Len(name))

pathJoin(dir, name) == dir \o <<"/">> \o name

\* path.relative(from, to) for a path below from
pathRelative(from, to) == SubSeq(to, Len(from) + 2, Len(to))

\* ------------------------------------------------------------------------
\* Config
\* ------------------------------------------------------------------------
METADATA_FOLDER == <<"s","r","c">>

FOLDER_PATH == pathJoin(METADATA_FOLDER, <<"a","s","s","e","t","s">>)

METADATA_FOLDER_EXCLUDED == { <<"a","s","s","e","t","s">> }

\* ------------------------------------------------------------------------
\* Buffers (node Buffer)
\* ------------------------------------------------------------------------
HexChars == <<"0","1","2","3","4","5","6","7","8","9","a","b","c","d","e","f">>

slice(buffer, start, end) == SubSeq(buffer, start + 1, Min(end, Len(buffer)))

\* Buffer.prototype.toString("hex"): two lower-case digits a byte, no separator
toStringHex(buffer) ==
    [k \in 1..(2 * Len(buffer)) |->
        IF k % 2 = 1 THEN HexChars[(buffer[(k + 1) \div 2] \div 16) + 1]
                     ELSE HexChars[(buffer[k \div 2] % 16) + 1]]

\* buffer[i]: -1 stands for undefined (every comparison with it is false)
At(buffer, i) == IF i >= 0 /\ i < Len(buffer) THEN buffer[i + 1] ELSE -1

InRange16(buffer, offset) == offset >= 0 /\ offset <= Len(buffer) - 2

InRange32(buffer, offset) == offset >= 0 /\ offset <= Len(buffer) - 4

readUInt16BE(buffer, offset) == buffer[offset + 1] * 256 + buffer[offset + 2]

readUInt32BE(buffer, offset) ==
      buffer[offset + 1] * 16777216 + buffer[offset + 2] * 65536
    + buffer[offset + 3] * 256 + buffer[offset + 4]

\* ------------------------------------------------------------------------
\* getImageDimensions
\* ------------------------------------------------------------------------
Null == [tag |-> "null"]

Throw == [tag |-> "throw"]

Dims(w, h) == [tag |-> "dims", width |-> w, height |-> h]

PNG_HEADER_HEX ==
    <<"8","9","5","0","4","e","4","7","0","d","0","a","1","a","0","a">>

JPG_HEADER_HEX == <<"f","f"," ","d","8">>

RECURSIVE ScanSegments(_, _)
ScanSegments(buffer, i) ==
    IF ~(i < Len(buffer)) THEN Null
    ELSE IF ~InRange16(buffer, i + 2) THEN Throw
    ELSE LET segmentLength == readUInt16BE(buffer, i + 2)
         IN IF /\ At(buffer, i) = 255
               /\ At(buffer, i + 1) >= 192
               /\ At(buffer, i + 1) <= 195
            THEN IF InRange16(buffer, i + 5) /\ InRange16(buffer, i + 7)
                 THEN Dims(readUInt16BE(buffer, i + 7),
                           readUInt16BE(buffer, i + 5))
                 ELSE Throw
            ELSE ScanSegments(buffer, i + segmentLength + 2)

\* getImageDimensions with the two offsets of the PNG branch exchanged
getImageDimensionsSwapped(buffer) ==
    IF toStringHex(slice(buffer, 0, 8)) = PNG_HEADER_HEX
    THEN IF InRange32(buffer, 16) /\ InRange32(buffer, 20)
         THEN Dims(readUInt32BE(buffer, 20), readUInt32BE(buffer, 16))
         ELSE Throw
    ELSE IF toStringHex(slice(buffer, 0, 2)) = JPG_HEADER_HEX
    THEN ScanSegments(buffer, 2)
    ELSE Null

getImageDimensions(buffer) ==
    IF toStringHex(slice(buffer, 0, 8)) = PNG_HEADER_HEX
    THEN IF InRange32(buffer, 16) /\ InRange32(buffer, 20)
         THEN Dims(readUInt32BE(buffer, 16), readUInt32BE(buffer, 20))
         ELSE Throw
    ELSE IF toStringHex(slice(buffer, 0, 2)) = JPG_HEADER_HEX
    THEN ScanSegments(buffer, 2)
    ELSE Null

\* ------------------------------------------------------------------------
\* Process state
\* ------------------------------------------------------------------------
VARIABLES
    dirs,          \* file system: directory path -> entries, in readdir order
    files,         \* file system: file path -> bytes
    json,          \* file system: path of a .json file -> parsed document
    pc,            \* position of the script
    stack,         \* processDirectory activations: [dirPath, idx]
    dimensions,    \* validateAssetsImages: result of the last reader call
    errors,        \* validateAssetsImages: errors
    jsonMetadata,  \* validateMetadataImages: category -> file -> content
    cursor,        \* validateMetadataImages: position in the forEach nest
    metaErrors,    \* validateMetadataImages: errors
    console,       \* lines written by console.error / console.warn
    exitCode       \* process exit status, NotExited while running

vars == <<dirs, files, json, pc, stack, dimensions, errors, jsonMetadata,
          cursor, metaErrors, console, exitCode>>

NotExited == -1

Undefined == [tag |-> "undefined"]

\* paths are taken from the directory above scripts/, where the script is
\* run: src of line 8 and ../src of line 173 are the same directory
readdirSync(dirPath) == dirs[dirPath]

readFileSync(filePath) == files[filePath]

existsSync(anyPath) == anyPath \in DOMAIN files \/ anyPath \in DOMAIN dirs

\* the activation on top of the stack and the entry its loop is at
Top == stack[Len(stack)]

Entries == readdirSync(Top.dirPath)

Entry == Entries[Top.idx]

fullPath == pathJoin(Top.dirPath, Entry.name)

relativePath == pathRelative(FOLDER_PATH, fullPath)

ext == toLowerCase(extname(Entry.name))

DS_STORE == <<".","D","S","_","S","t","o","r","e">>

VALIDATOR_DEFAULT ==
    <<"v","a","l","i","d","a","t","o","r","-","d","e","f","a","u","l","t",
      ".","p","n","g">>

PNG == <<".","p","n","g">>

JPG == <<".","j","p","g">>

JPEG == <<".","j","p","e","g">>

TOKENS == <<"t","o","k","e","n","s">>

VALIDATORS == <<"v","a","l","i","d","a","t","o","r","s">>

VAULTS == <<"v","a","u","l","t","s">>

IsImageExt(e) == e = PNG \/ e = JPG \/ e = JPEG

AtEntry == pc = "entry" /\ Top.idx <= Len(Entries)

NextEntry == [stack EXCEPT ![Len(stack)].idx = @ + 1]

\* an uncaught exception: node prints it and ends the process with status 1
Uncaught(thrownBy) ==
    /\ console' = Append(console,
                         [stream |-> "error", kind |-> "uncaught",
                          text |-> thrownBy])
    /\ pc' = "exited"
    /\ exitCode' = 1

\* process.exit(1)
ProcessExit1 ==
    /\ pc' = "exited"
    /\ exitCode' = 1

\* ------------------------------------------------------------------------
\* validateAssetsImages / processDirectory
\* ------------------------------------------------------------------------
AssetError(kind) == [path |-> relativePath, kind |-> kind, dims |-> dimensions]

HexDigitsIgnoreCase ==
    Digits \cup {"a","b","c","d","e","f"} \cup {"A","B","C","D","E","F"}

\* /^0x[0-9a-f]{n}$/i
HexAddressRegex(n, s) ==
    /\ Len(s) = n + 2
    /\ s[1] = "0"
    /\ s[2] \in {"x", "X"}
    /\ \A i \in 3..(n + 2) : s[i] \in HexDigitsIgnoreCase

tokenRegex(s) == HexAddressRegex(40, s)

validatorRegex(s) == HexAddressRegex(96, s)

\* the % of JavaScript: the sign of the result is that of the dividend
JsRem(a, b) == IF a >= 0 THEN a % b ELSE 0 - ((0 - a) % b)

\* readUInt32BE(offset) === 0x00000000; the first conjunct follows from the
\* second and keeps words such as 0x89504e47 out of the evaluation
IsZeroPixel(buffer, offset) ==
    /\ buffer[offset + 1] = 0
    /\ readUInt32BE(buffer, offset) = 0

topRightOffset(d) == d.width - 1

bottomLeftOffset(d, buffer) == JsRem(d.width * (d.height - 1), Len(buffer))

bottomRightOffset(d, buffer) ==
    Min(d.width * d.height - 1, Len(buffer) - 4)

\* the four reads of the transparency check, in order; the first one out of
\* range throws
PixelReadsThrow(d, buffer) ==
    \/ ~InRange32(buffer, 0)
    \/ ~InRange32(buffer, topRightOffset(d))
    \/ ~InRange32(buffer, bottomLeftOffset(d, buffer))
    \/ ~InRange32(buffer, bottomRightOffset(d, buffer))

AnyPixelTransparent(d, buffer) ==
    \/ IsZeroPixel(buffer, 0)
    \/ IsZeroPixel(buffer, topRightOffset(d))
    \/ IsZeroPixel(buffer, bottomLeftOffset(d, buffer))
    \/ IsZeroPixel(buffer, bottomRightOffset(d, buffer))

\* DimensionsInvalid without the test for a square
DimensionsInvalidNoSquare(d) ==
    \/ d = Null
    \/ d.width < 1024
    \/ d.height < 1024

DimensionsInvalid(d) ==
    \/ d = Null
    \/ d.width < 1024
    \/ d.height < 1024
    \/ d.width # d.height

\* line 71-73: a directory entry starts a nested processDirectory
EnterDirectory ==
    /\ AtEntry
    /\ Entry.isDirectory
    /\ stack' = Append(stack, [dirPath |-> fullPath, idx |-> 1])
    /\ UNCHANGED <<dirs, files, json, pc, dimensions, errors, jsonMetadata,
                   cursor, metaErrors, console, exitCode>>

\* line 74-75: allow-listed names are passed over
SkipListed ==
    /\ AtEntry
    /\ ~Entry.isDirectory
    /\ Entry.name \in {DS_STORE, VALIDATOR_DEFAULT}
    /\ stack' = NextEntry
    /\ UNCHANGED <<dirs, files, json, pc, dimensions, errors, jsonMetadata,
                   cursor, metaErrors, console, exitCode>>

\* line 78-80: an image file is handed to the reader, which may throw
ReadImage ==
    /\ AtEntry
    /\ ~Entry.isDirectory
    /\ Entry.name \notin {DS_STORE, VALIDATOR_DEFAULT}
    /\ IsImageExt(ext)
    /\ LET d == getImageDimensions(readFileSync(fullPath))
       IN IF d = Throw
          THEN /\ Uncaught("getImageDimensions")
               /\ UNCHANGED dimensions
          ELSE /\ dimensions' = d
               /\ pc' = "name"
               /\ UNCHANGED <<console, exitCode>>
    /\ UNCHANGED <<dirs, files, json, stack, errors, jsonMetadata, cursor,
                   metaErrors>>

\* UnsupportedFileType without the process.exit(1): the loop goes on
UnsupportedFileTypeGoesOn ==
    /\ AtEntry
    /\ ~Entry.isDirectory
    /\ Entry.name \notin {DS_STORE, VALIDATOR_DEFAULT}
    /\ ~IsImageExt(ext)
    /\ console' = Append(console,
                         [stream |-> "error", kind |-> "unsupported",
                          text |-> fullPath])
    /\ stack' = NextEntry
    /\ UNCHANGED <<dirs, files, json, pc, dimensions, errors, jsonMetadata,
                   cursor, metaErrors, exitCode>>

\* line 146-149: any other file ends the process at once
UnsupportedFileType ==
    /\ AtEntry
    /\ ~Entry.isDirectory
    /\ Entry.name \notin {DS_STORE, VALIDATOR_DEFAULT}
    /\ ~IsImageExt(ext)
    /\ console' = Append(console,
                         [stream |-> "error", kind |-> "unsupported",
                          text |-> fullPath])
    /\ ProcessExit1
    /\ UNCHANGED <<dirs, files, json, stack, dimensions, errors,
                   jsonMetadata, cursor, metaErrors>>

\* line 83-106
ValidateFileName ==
    /\ pc = "name"
    /\ errors' =
         IF includes(relativePath, TOKENS)
         THEN IF ~tokenRegex(replace(replace(relativePath, ext, <<>>),
                                     TOKENS \o <<"/">>, <<>>))
              THEN Append(errors, AssetError("token-name"))
              ELSE errors
         ELSE IF includes(relativePath, VALIDATORS)
         THEN IF ~validatorRegex(replace(replace(relativePath, ext, <<>>),
                                         VALIDATORS \o <<"/">>, <<>>))
              THEN Append(errors, AssetError("validator-name"))
              ELSE errors
         ELSE errors
    /\ pc' = "dimensions"
    /\ UNCHANGED <<dirs, files, json, stack, dimensions, jsonMetadata,
                   cursor, metaErrors, console, exitCode>>

\* line 108-118
ValidateDimensions ==
    /\ pc = "dimensions"
    /\ errors' = IF DimensionsInvalid(dimensions)
                 THEN Append(errors, AssetError("dimensions"))
                 ELSE errors
    /\ pc' = "transparency"
    /\ UNCHANGED <<dirs, files, json, stack, dimensions, jsonMetadata,
                   cursor, metaErrors, console, exitCode>>

\* line 120-145, then the loop moves to the next entry
ValidateTransparency ==
    /\ pc = "transparency"
    /\ IF ext = PNG /\ dimensions # Null
       THEN LET buffer == readFileSync(fullPath)
            IN IF PixelReadsThrow(dimensions, buffer)
               THEN /\ Uncaught("transparency")
                    /\ UNCHANGED <<errors, stack>>
               ELSE /\ errors' =
                         IF AnyPixelTransparent(dimensions, buffer)
                         THEN Append(errors, AssetError("transparent"))
                         ELSE errors
                    /\ pc' = "entry"
                    /\ stack' = NextEntry
                    /\ UNCHANGED <<console, exitCode>>
       ELSE /\ pc' = "entry"
            /\ stack' = NextEntry
            /\ UNCHANGED <<errors, console, exitCode>>
    /\ UNCHANGED <<dirs, files, json, dimensions, jsonMetadata, cursor,
                   metaErrors>>

\* line 68/152: the loop of an activation is over; it returns to its caller,
\* whose loop moves on
ReturnFromDirectory ==
    /\ pc = "entry"
    /\ Top.idx > Len(Entries)
    /\ IF Len(stack) = 1
       THEN /\ stack' = <<>>
            /\ pc' = "report"
       ELSE /\ stack' = [SubSeq(stack, 1, Len(stack) - 1)
                           EXCEPT ![Len(stack) - 1].idx = @ + 1]
            /\ UNCHANGED pc
    /\ UNCHANGED <<dirs, files, json, dimensions, errors, jsonMetadata,
                   cursor, metaErrors, console, exitCode>>

ErrorLines(stream, es) ==
    [i \in 1..Len(es) |-> [stream |-> stream, kind |-> "item", text |-> es[i]]]

\* ReportAssets without the process.exit(1): the errors are printed and the
\* script goes on
ReportAssetsAndGoOn ==
    /\ pc = "report"
    /\ console' = IF Len(errors) > 0
                  THEN console
                       \o <<[stream |-> "error", kind |-> "count",
                             text |-> Len(errors)]>>
                       \o ErrorLines("error", errors)
                  ELSE console
    /\ pc' = "load"
    /\ UNCHANGED <<dirs, files, json, stack, dimensions, errors,
                   jsonMetadata, cursor, metaErrors, exitCode>>

\* line 157-162
ReportAssets ==
    /\ pc = "report"
    /\ IF Len(errors) > 0
       THEN /\ console' = console
                    \o <<[stream |-> "error", kind |-> "count",
                          text |-> Len(errors)]>>
                    \o ErrorLines("error", errors)
            /\ ProcessExit1
       ELSE /\ pc' = "load"
            /\ UNCHANGED <<console, exitCode>>
    /\ UNCHANGED <<dirs, files, json, stack, dimensions, errors,
                   jsonMetadata, cursor, metaErrors>>

\* ------------------------------------------------------------------------
\* validateMetadataImages
\* ------------------------------------------------------------------------
JSON_SUFFIX == <<".","j","s","o","n">>

RECURSIVE Flatten(_)
Flatten(ss) == IF ss = <<>> THEN <<>> ELSE Head(ss) \o Flatten(Tail(ss))

\* line 172-180
MetadataFolders ==
    LET keep(entry) == entry.isDirectory
                       /\ entry.name \notin METADATA_FOLDER_EXCLUDED
        kept == SelectSeq(readdirSync(METADATA_FOLDER), keep)
    IN [i \in 1..Len(kept) |-> kept[i].name]

\* line 196-201: JSON.parse(...)?.[folder]
ContentOf(folder, name) ==
    LET doc == json[pathJoin(pathJoin(METADATA_FOLDER, folder), name)]
    IN IF folder \in DOMAIN doc
       THEN [isArray |-> TRUE, items |-> doc[folder]]
       ELSE [isArray |-> FALSE, items |-> <<>>]

\* line 190-213: the .json files of one folder, in readdir order
FolderFiles(folder) ==
    LET keep(entry) == ~entry.isDirectory /\ endsWith(entry.name, JSON_SUFFIX)
        kept == SelectSeq(readdirSync(pathJoin(METADATA_FOLDER, folder)), keep)
    IN [i \in 1..Len(kept) |->
          [file |-> kept[i].name, content |-> ContentOf(folder, kept[i].name)]]

\* line 183-214: only a folder with a .json file gets a key
LoadedMetadata ==
    LET all == [i \in 1..Len(MetadataFolders) |->
                  [key |-> MetadataFolders[i],
                   files |-> FolderFiles(MetadataFolders[i])]]
        keep(m) == m.files # <<>>
    IN SelectSeq(all, keep)

CheckedCategories == {TOKENS, VALIDATORS, VAULTS}

\* line 218-280: the calls of the innermost callbacks, in order; forEach on
\* a content that is not an array throws
FileVisits(key, f) ==
    IF f.content.isArray
    THEN [i \in 1..Len(f.content.items) |->
            [key |-> key, file |-> f.file, throws |-> FALSE,
             element |-> f.content.items[i]]]
    ELSE <<[key |-> key, file |-> f.file, throws |-> TRUE,
            element |-> Undefined]>>

KeyVisits(m) ==
    IF m.key \in CheckedCategories
    THEN Flatten([i \in 1..Len(m.files) |-> FileVisits(m.key, m.files[i])])
    ELSE <<>>

Visits(jm) == Flatten([i \in 1..Len(jm) |-> KeyVisits(jm[i])])

ASSETS == <<"a","s","s","e","t","s">>

\* AssetMissing without the look for a .jpeg file
AssetMissingNoJpeg(folder, id) ==
    LET base == pathJoin(pathJoin(pathJoin(METADATA_FOLDER, ASSETS), folder), id)
    IN /\ ~existsSync(base \o PNG)
       /\ ~existsSync(base \o JPG)

\* line 224-231, 244-251, 264-271
AssetMissing(folder, id) ==
    LET base == pathJoin(pathJoin(pathJoin(METADATA_FOLDER, ASSETS), folder), id)
    IN /\ ~existsSync(base \o PNG)
       /\ ~existsSync(base \o JPG)
       /\ ~existsSync(base \o JPEG)

\* the identifier a category is keyed by and the folder it is looked up in
LookupOf(v) ==
    IF v.key = TOKENS
    THEN [id |-> v.element.address, folder |-> TOKENS, kind |-> "token"]
    ELSE IF v.key = VALIDATORS
    THEN [id |-> v.element.id, folder |-> VALIDATORS, kind |-> "validator"]
    ELSE [id |-> v.element.stakingTokenAddress, folder |-> TOKENS,
          kind |-> "vault"]

\* line 169-214
LoadMetadata ==
    /\ pc = "load"
    /\ jsonMetadata' = LoadedMetadata
    /\ cursor' = 1
    /\ pc' = "check"
    /\ UNCHANGED <<dirs, files, json, stack, dimensions, errors, metaErrors,
                   console, exitCode>>

\* line 223-237, 243-257, 263-277: one call of an innermost callback
CheckElement ==
    /\ pc = "check"
    /\ cursor <= Len(Visits(jsonMetadata))
    /\ LET v == Visits(jsonMetadata)[cursor]
       IN IF v.throws
          THEN /\ Uncaught("forEach")
               /\ UNCHANGED <<metaErrors, cursor>>
          ELSE /\ metaErrors' =
                    IF AssetMissing(LookupOf(v).folder, LookupOf(v).id)
                    THEN Append(metaErrors,
                                [id |-> LookupOf(v).id,
                                 kind |-> LookupOf(v).kind])
                    ELSE metaErrors
               /\ cursor' = cursor + 1
               /\ UNCHANGED <<pc, console, exitCode>>
    /\ UNCHANGED <<dirs, files, json, stack, dimensions, errors,
                   jsonMetadata>>

\* line 282-286, then the script ends and the process exits with status 0
ReportMetadata ==
    /\ pc = "check"
    /\ cursor > Len(Visits(jsonMetadata))
    /\ console' = IF Len(metaErrors) > 0
                  THEN console
                       \o <<[stream |-> "warn", kind |-> "count",
                             text |-> Len(metaErrors)]>>
                       \o ErrorLines("warn", metaErrors)
                  ELSE console
    /\ pc' = "exited"
    /\ exitCode' = 0
    /\ UNCHANGED <<dirs, files, json, stack, dimensions, errors,
                   jsonMetadata, cursor, metaErrors>>

\* ------------------------------------------------------------------------
\* The trees the script is run on
\* ------------------------------------------------------------------------
MaxFiles == 2

MaxElems == 2

MaxSegment == 5

OLD == <<"o","l","d">>

CHAINS == <<"c","h","a","i","n","s">>

ROOT == <<>>

UInt16Bytes(n) == <<n \div 256, n % 256>>

UInt32Bytes(n) ==
    <<n \div 16777216, (n \div 65536) % 256, (n \div 256) % 256, n % 256>>

PngSignature == <<137, 80, 78, 71, 13, 10, 26, 10>>

\* length and type of the IHDR chunk, and eight bytes that are no chunk head
ChunkHeads == { <<0, 0, 0, 13, 73, 72, 68, 82>>, Rep(0, 8) }

PngBuffer(head, w, h, total, fill) ==
    PngSignature \o head \o UInt32Bytes(w) \o UInt32Bytes(h)
                 \o Rep(fill, total - 24)

DimValues == {0, 1, 4, 23, 1023, 1024, 2048, 2147483647}

\* width, height; a pair whose product the transparency check would take
\* beyond 2^31 is left out
DimPairs ==
    {p \in DimValues \X DimValues :
        ~(p[1] \in 1..1024 /\ p[2] = 2147483647)}

PngBuffers ==
    {PngBuffer(hd, p[1], p[2], t, f) :
        hd \in ChunkHeads, p \in DimPairs, t \in {24, 40, 1027}, f \in {0, 1}}

TruncatedBuffers ==
    {SubSeq(PngBuffer(Rep(0, 8), 1024, 1024, 24, 0), 1, n) :
        n \in {0, 1, 7, 8, 16, 19, 20, 23}}

Soi == <<255, 216>>

\* a marker segment of declared length len (its two length bytes included)
Segment(marker, len, fill) ==
    <<255, marker>> \o UInt16Bytes(len) \o Rep(fill, len - 2)

Sof(marker, h, w) ==
    <<255, marker, 0, 17, 8>> \o UInt16Bytes(h) \o UInt16Bytes(w)
                              \o <<3>> \o Rep(1, 9)

LeadingSegments ==
    {<<>>}
    \cup {Segment(m, len, f) :
            m \in {191, 196, 224}, len \in 2..MaxSegment, f \in {1, 192}}
    \cup {Segment(224, len, 255) \o Segment(219, 2, 1) : len \in 2..MaxSegment}

JpegBuffers ==
    {Soi \o pre \o Sof(m, p[1], p[2]) \o <<255, 217>> :
        pre \in LeadingSegments, m \in 192..195,
        p \in {<<1024, 1024>>, <<1023, 1024>>, <<1024, 2048>>}}
    \cup {Soi \o pre \o <<255, 217>> : pre \in LeadingSegments}
    \cup {Soi \o SubSeq(Sof(192, 1024, 1024), 1, n) : n \in {1, 4, 6, 8}}

OtherBuffers ==
    { <<>>, <<255>>, <<255, 216>>, <<71, 73, 70, 56, 57, 97>>,
      <<137, 80, 78, 71, 13, 10, 26, 11>> \o Rep(0, 16) }

Buffers == PngBuffers \cup TruncatedBuffers \cup JpegBuffers \cup OtherBuffers

Address(c, n) == <<"0", "x">> \o Rep(c, n)

A1 == Address("a", 40)

A2 == Address("b", 40)

A3 == Address("c", 40)

V1 == Address("d", 96)

V2 == Address("e", 96)

BaseNames ==
    { A1, <<"0", "X">> \o Rep("A", 40), <<"0", "x">> \o Rep("F", 20) \o Rep("9", 20),
      Address("a", 39), Address("a", 41), Address("a", 39) \o <<"g">>,
      <<"1", "x">> \o Rep("a", 40),
      V1, Address("d", 95), Address("d", 97), Address("D", 96),
      <<"l","o","g","o">>, TOKENS }

Extensions ==
    { PNG, <<".","P","N","G">>, JPG, JPEG, <<".","J","p","e","g">>,
      <<".","t","x","t">>, <<>> }

\* a 4x4 header: every pixel read of the transparency check is in range
SmallPng == PngBuffer(<<0, 0, 0, 13, 73, 72, 68, 82>>, 4, 4, 24, 0)

\* 1024x1024, long enough for the pixel reads, no zero word
GoodPng == PngBuffer(<<0, 0, 0, 13, 73, 72, 68, 82>>, 1024, 1024, 1027, 1)

\* 1024x1024 header alone: passes under a .jpg/.jpeg name, where the
\* transparency check is not made
GoodHeader == PngBuffer(<<0, 0, 0, 13, 73, 72, 68, 82>>, 1024, 1024, 24, 0)

Placed(dir, name, data) == [dir |-> dir, name |-> name, data |-> data]

Element(a, i, s) == [address |-> a, id |-> i, stakingTokenAddress |-> s]

Item(folder, element) == [folder |-> folder, element |-> element]

SeqsUpTo(S, n) == UNION {[1..k -> S] : k \in 0..n}

Injective(s) == \A i, j \in 1..Len(s) : i # j => s[i] # s[j]

FileEntry(name) == [name |-> name, isDirectory |-> FALSE]

DirEntry(name) == [name |-> name, isDirectory |-> TRUE]

DirPathOf(dir) == IF dir = ROOT THEN FOLDER_PATH ELSE pathJoin(FOLDER_PATH, dir)

TOKENS_OLD == pathJoin(TOKENS, OLD)

A_JSON == <<"a",".","j","s","o","n">>

B_JSON == <<"b",".","j","s","o","n">>

\* the tree with the files of placed (in this order inside each directory)
\* under src/assets and, for each folder of items, src/<folder>/a.json with
\* its first element and b.json with the others; the a.json of a folder in
\* keyless lacks the folder's key
Tree(placed, items, keyless) ==
    LET In(d) == LET here(f) == f.dir = d
                     kept == SelectSeq(placed, here)
                 IN [i \in 1..Len(kept) |-> FileEntry(kept[i].name)]
        Of(c) == LET here(it) == it.folder = c
                     kept == SelectSeq(items, here)
                 IN [i \in 1..Len(kept) |-> kept[i].element]
        folders == LET present(c) == Of(c) # <<>>
                   IN SelectSeq(<<CHAINS, TOKENS, VALIDATORS, VAULTS>>, present)
        folderSet == {folders[i] : i \in 1..Len(folders)}
        Listing(c) ==
            <<FileEntry(<<"R","E","A","D","M","E",".","m","d">>),
              FileEntry(A_JSON),
              DirEntry(<<"o","l","d",".","j","s","o","n">>)>>
            \o (IF Len(Of(c)) > 1 THEN <<FileEntry(B_JSON)>> ELSE <<>>)
        assetDirs ==
            (FOLDER_PATH :> (In(ROOT) \o <<DirEntry(TOKENS), DirEntry(VALIDATORS)>>))
            @@ (DirPathOf(TOKENS) :>
                  (In(TOKENS) \o (IF In(TOKENS_OLD) # <<>>
                                  THEN <<DirEntry(OLD)>> ELSE <<>>)))
            @@ (DirPathOf(VALIDATORS) :> In(VALIDATORS))
            @@ [d \in (IF In(TOKENS_OLD) # <<>>
                       THEN {DirPathOf(TOKENS_OLD)} ELSE {}) |-> In(TOKENS_OLD)]
        metaDirs ==
            (METADATA_FOLDER :>
                (<<DirEntry(ASSETS),
                   FileEntry(<<"i","n","d","e","x",".","t","s">>)>>
                 \o [i \in 1..Len(folders) |-> DirEntry(folders[i])]))
            @@ [d \in {pathJoin(METADATA_FOLDER, c) : c \in folderSet} |->
                  Listing(CHOOSE c \in folderSet : pathJoin(METADATA_FOLDER, c) = d)]
        placedSet == {placed[i] : i \in 1..Len(placed)}
        PathOf(f) == pathJoin(DirPathOf(f.dir), f.name)
        docs ==
            {[path |-> pathJoin(pathJoin(METADATA_FOLDER, c), A_JSON),
              doc |-> IF c \in keyless
                      THEN (<<"n","a","m","e">> :> <<>>)
                      ELSE (c :> <<Of(c)[1]>>)] : c \in folderSet}
            \cup
            {[path |-> pathJoin(pathJoin(METADATA_FOLDER, c), B_JSON),
              doc |-> (c :> Tail(Of(c)))] : c \in {x \in folderSet : Len(Of(x)) > 1}}
    IN [dirs |-> assetDirs @@ metaDirs,
        files |-> [q \in {PathOf(f) : f \in placedSet} |->
                     (CHOOSE f \in placedSet : PathOf(f) = q).data],
        json |-> [q \in {d.path : d \in docs} |->
                     (CHOOSE d \in docs : d.path = q).doc]]

E1 == Element(A1, V1, A2)

E2 == Element(A2, V2, A1)

E3 == Element(A3, V1, A3)

\* one file, every buffer, under a .png and under a .jpg name
BufferTrees ==
    {Tree(<<Placed(TOKENS, A1 \o e, b)>>, <<Item(TOKENS, E2)>>, {}) :
        e \in {PNG, JPG}, b \in Buffers}

\* one file, every name in every directory
NameTrees ==
    {Tree(<<Placed(d, n \o e, SmallPng)>>, <<Item(TOKENS, E2)>>, {}) :
        d \in {ROOT, TOKENS, VALIDATORS}, n \in BaseNames, e \in Extensions}

TreeCatalogue ==
    { Placed(ROOT, DS_STORE, <<0>>),
      Placed(ROOT, VALIDATOR_DEFAULT, <<>>),
      Placed(ROOT, <<"n","o","t","e","s",".","t","x","t">>, <<>>),
      Placed(TOKENS, A1 \o JPG, GoodHeader),
      Placed(TOKENS, Address("a", 39) \o PNG, SmallPng),
      Placed(TOKENS_OLD, <<"R","E","A","D","M","E">>, <<>>),
      Placed(VALIDATORS, V1 \o JPEG, GoodHeader),
      Placed(VALIDATORS, V2 \o PNG, PngSignature) }

\* up to MaxFiles files, with and without bad ones, and two metadata entries
FileTrees ==
    {Tree(fs, <<Item(TOKENS, E2), Item(VAULTS, E1)>>, {}) :
        fs \in {s \in SeqsUpTo(TreeCatalogue, MaxFiles) : Injective(s)}}

CleanAssets ==
    <<Placed(ROOT, DS_STORE, <<0>>),
      Placed(TOKENS, A1 \o PNG, GoodPng),
      Placed(TOKENS, A3 \o JPG, GoodHeader),
      Placed(VALIDATORS, V1 \o JPEG, GoodHeader)>>

MetadataItems ==
    {Item(c, e) : c \in {CHAINS, TOKENS, VALIDATORS, VAULTS}, e \in {E1, E2, E3}}

\* clean assets and up to MaxElems metadata entries; also documents without
\* the key of their folder
MetadataTrees ==
    {Tree(CleanAssets, its, {}) : its \in SeqsUpTo(MetadataItems, MaxElems)}
    \cup
    {Tree(CleanAssets, <<Item(TOKENS, E2), Item(c, E1)>>, {c}) :
        c \in {CHAINS, VAULTS}}

Trees == BufferTrees \cup NameTrees \cup FileTrees \cup MetadataTrees

\* the script starts at line 291 with processDirectory(FOLDER_PATH) pending
Init ==
    /\ \E t \in Trees :
          /\ dirs = t.dirs
          /\ files = t.files
          /\ json = t.json
    /\ pc = "entry"
    /\ stack = <<[dirPath |-> FOLDER_PATH, idx |-> 1]>>
    /\ dimensions = Null
    /\ errors = <<>>
    /\ jsonMetadata = <<>>
    /\ cursor = 1
    /\ metaErrors = <<>>
    /\ console = <<>>
    /\ exitCode = NotExited

Next ==
    \/ EnterDirectory
    \/ SkipListed
    \/ ReadImage
    \/ UnsupportedFileType
    \/ ValidateFileName
    \/ ValidateDimensions
    \/ ValidateTransparency
    \/ ReturnFromDirectory
    \/ ReportAssets
    \/ LoadMetadata
    \/ CheckElement
    \/ ReportMetadata

Spec == Init /\ [][Next]_vars

\* ------------------------------------------------------------------------
\* Properties
\* ------------------------------------------------------------------------
\* the file the asset pass is at, once the reader has returned for it
ReaderReturned == pc \in {"name", "dimensions", "transparency"}

CurrentBuffer == readFileSync(fullPath)

\* the big-endian value of the n bytes at a 0-based offset
RECURSIVE BigEndian(_, _, _)
BigEndian(buffer, offset, n) ==
    IF n = 0 THEN 0
    ELSE BigEndian(buffer, offset, n - 1) * 256 + buffer[offset + n]

StartsWith(buffer, prefix) ==
    Len(buffer) >= Len(prefix) /\ SubSeq(buffer, 1, Len(prefix)) = prefix

\* the offset of the first FF C0..FF C3 marker the segment scan from offset i
\* comes to, -1 when the scan leaves the buffer first
RECURSIVE FirstSof(_, _)
FirstSof(buffer, i) ==
    IF i + 4 > Len(buffer) THEN -1
    ELSE IF buffer[i + 1] = 255 /\ buffer[i + 2] \in 192..195 THEN i
    ELSE FirstSof(buffer, i + 2 + BigEndian(buffer, i + 2, 2))

HasSof(buffer) ==
    /\ StartsWith(buffer, <<255, 216>>)
    /\ FirstSof(buffer, 2) >= 0
    /\ FirstSof(buffer, 2) + 9 <= Len(buffer)

\* C1: for a file whose bytes start FF D8 and whose segment scan from offset
\* 2 comes to a marker FF C0..FF C3 at i, the reader returns the height at
\* i+5 and the width at i+7 (16-bit big-endian), not null
C1_JpegDimensions ==
    (ReaderReturned /\ HasSof(CurrentBuffer)) =>
        dimensions =
            Dims(BigEndian(CurrentBuffer, FirstSof(CurrentBuffer, 2) + 7, 2),
                 BigEndian(CurrentBuffer, FirstSof(CurrentBuffer, 2) + 5, 2))

\* C2: for a file whose first 8 bytes are the PNG signature, the reader
\* returns the 32-bit big-endian width at offset 16 and height at offset 20,
\* whatever the other bytes are
C2_PngDimensions ==
    (/\ ReaderReturned
     /\ StartsWith(CurrentBuffer, PngSignature)
     /\ Len(CurrentBuffer) >= 24) =>
        dimensions = Dims(BigEndian(CurrentBuffer, 16, 4),
                          BigEndian(CurrentBuffer, 20, 4))

\* C2 witness: a signature followed by bytes that are no IHDR chunk head and
\* by the largest width and height of the model
C2_Witness ==
    /\ ReaderReturned
    /\ StartsWith(CurrentBuffer, PngSignature \o Rep(0, 8))
    /\ dimensions = Dims(2147483647, 2147483647)

\* C3: the reader never raises: whatever the bytes of the file it is about
\* to be called on, it returns dimensions or null
C3_ReaderTotal ==
    (/\ AtEntry
     /\ ~Entry.isDirectory
     /\ Entry.name \notin {DS_STORE, VALIDATOR_DEFAULT}
     /\ IsImageExt(ext)) =>
        getImageDimensions(CurrentBuffer).tag \in {"dims", "null"}

\* the texts of the "item" lines written on a stream, in order
ItemsOn(stream) ==
    LET on(line) == line.stream = stream /\ line.kind = "item"
        kept == SelectSeq(console, on)
    IN [i \in 1..Len(kept) |-> kept[i].text]

HasLine(kind) == \E i \in 1..Len(console) : console[i].kind = kind

HasUncaught(thrownBy) ==
    \E i \in 1..Len(console) :
        console[i].kind = "uncaught" /\ console[i].text = thrownBy

IsPrefix(s, t) == Len(s) <= Len(t) /\ SubSeq(t, 1, Len(s)) = s

\* the identifiers the metadata refers to, read off the tree: for each
\* directory of src other than assets, in listing order, each of its .json
\* files, each element of the array under the folder's key
ReferencesIn(folder, name) ==
    LET doc == json[METADATA_FOLDER \o <<"/">> \o folder \o <<"/">> \o name]
        arr == IF folder \in DOMAIN doc THEN doc[folder] ELSE <<>>
    IN [i \in 1..Len(arr) |->
          IF folder = TOKENS
          THEN [id |-> arr[i].address, kind |-> "token", in |-> TOKENS]
          ELSE IF folder = VALIDATORS
          THEN [id |-> arr[i].id, kind |-> "validator", in |-> VALIDATORS]
          ELSE [id |-> arr[i].stakingTokenAddress, kind |-> "vault",
                in |-> TOKENS]]

ReferencesOf(folder) ==
    LET listing == dirs[METADATA_FOLDER \o <<"/">> \o folder]
    IN Flatten([i \in 1..Len(listing) |->
                  IF ~listing[i].isDirectory
                     /\ endsWith(listing[i].name, JSON_SUFFIX)
                  THEN ReferencesIn(folder, listing[i].name)
                  ELSE <<>>])

References ==
    LET listing == dirs[METADATA_FOLDER]
    IN Flatten([i \in 1..Len(listing) |->
                  IF listing[i].isDirectory
                     /\ listing[i].name \in {TOKENS, VALIDATORS, VAULTS}
                  THEN ReferencesOf(listing[i].name)
                  ELSE <<>>])

\* no entry <id>.png, <id>.jpg or <id>.jpeg in the listing of assets/<in>
WithoutAsset(r) ==
    LET listing == dirs[FOLDER_PATH \o <<"/">> \o r.in]
    IN ~\E i \in 1..Len(listing) :
          listing[i].name \in {r.id \o PNG, r.id \o JPG, r.id \o JPEG}

ExpectedWarnings ==
    LET kept == SelectSeq(References, WithoutAsset)
    IN [i \in 1..Len(kept) |-> [id |-> kept[i].id, kind |-> kept[i].kind]]

MetadataStarted ==
    \/ pc = "check"
    \/ jsonMetadata # <<>>
    \/ metaErrors # <<>>
    \/ ItemsOn("warn") # <<>>

MetadataDone ==
    /\ jsonMetadata = LoadedMetadata
    /\ cursor > Len(Visits(jsonMetadata))
    /\ ItemsOn("warn") = metaErrors

\* C4 as stated: a run whose asset pass went through the whole tree and
\* accumulated errors also runs the metadata pass and reports its warnings
C4_MetadataAlwaysRuns ==
    (pc = "exited" /\ stack = <<>> /\ Len(errors) > 0) => MetadataDone

\* C4 amended: the metadata pass runs only after the asset pass went through
\* the whole tree without an error; an asset pass that ends with errors
\* prints them and exits with status 1 before the metadata pass, which then
\* produces nothing; a run ending with status 0 has run the metadata pass to
\* its end and printed its warnings
C4_MetadataAfterCleanAssets ==
    /\ MetadataStarted => (stack = <<>> /\ errors = <<>>)
    /\ (pc = "exited" /\ stack = <<>> /\ Len(errors) > 0) =>
          (exitCode = 1 /\ ItemsOn("error") = errors /\ ~MetadataStarted)
    /\ (pc = "exited" /\ exitCode = 0) => MetadataDone

\* C4 witness: the asset pass ended with errors in a tree whose metadata
\* refers to an identifier without asset
C4_Witness ==
    /\ pc = "exited"
    /\ stack = <<>>
    /\ Len(errors) > 0
    /\ ExpectedWarnings # <<>>

\* C5: unless the reader or the metadata loop throws, the exit status is 1
\* exactly when the asset pass recorded an error or came to an unsupported
\* file, and 0 otherwise, whatever the metadata warnings
C5_ExitStatus ==
    (/\ pc = "exited"
     /\ ~HasUncaught("getImageDimensions")
     /\ ~HasUncaught("forEach")) =>
        /\ exitCode \in {0, 1}
        /\ exitCode = 1 <=> (Len(errors) > 0 \/ HasLine("unsupported"))

ListedEntry ==
    AtEntry /\ ~Entry.isDirectory /\ Entry.name \in {DS_STORE, VALIDATOR_DEFAULT}

UnsupportedEntry ==
    /\ AtEntry
    /\ ~Entry.isDirectory
    /\ Entry.name \notin {DS_STORE, VALIDATOR_DEFAULT}
    /\ toLowerCase(extname(Entry.name)) \notin {PNG, JPG, JPEG}

\* C6: the step taken at a file that is neither allow-listed nor an image
\* ends the process with status 1, with no error added, no later entry
\* visited and the metadata pass not run, and an exited process takes no
\* step; the step taken at an allow-listed file only moves to the next entry
C6_UnsupportedExits ==
    [][/\ pc # "exited"
       /\ UnsupportedEntry =>
             /\ pc' = "exited"
             /\ exitCode' = 1
             /\ stack' = stack
             /\ errors' = errors
             /\ dimensions' = dimensions
             /\ jsonMetadata' = <<>>
             /\ metaErrors' = <<>>
       /\ ListedEntry =>
             /\ pc' = "entry"
             /\ stack' = NextEntry
             /\ errors' = errors
             /\ dimensions' = dimensions
             /\ exitCode' = NotExited]_vars

\* C6 witness: the process has exited at an unsupported file that other
\* entries follow
C6_Witness ==
    /\ pc = "exited"
    /\ exitCode = 1
    /\ HasLine("unsupported")
    /\ Len(stack) = 1
    /\ Top.idx < Len(Entries)
    /\ Cardinality(DOMAIN files) > 1

ErrorsFor(path, kind) ==
    Cardinality({i \in 1..Len(errors) :
                    errors[i].path = path /\ errors[i].kind = kind})

\* C7: once the dimension rule has run for a file, exactly one dimension
\* error is recorded for it unless the reader returned a square of at least
\* 1024, in which case none is; 1024x1024 passes, 1023x1024 and 2048x1024 fail
C7_DimensionRule ==
    pc = "transparency" =>
        /\ ErrorsFor(relativePath, "dimensions") =
              IF /\ dimensions.tag = "dims"
                 /\ dimensions.width = dimensions.height
                 /\ dimensions.width >= 1024
              THEN 0 ELSE 1
        /\ dimensions = Dims(1024, 1024) =>
              ErrorsFor(relativePath, "dimensions") = 0
        /\ dimensions \in {Dims(1023, 1024), Dims(2048, 1024), Null} =>
              ErrorsFor(relativePath, "dimensions") = 1

\* C7 witness: the rule has run on a 1024x1024 image and recorded nothing
C7_Witness ==
    /\ pc = "transparency"
    /\ dimensions = Dims(1024, 1024)
    /\ ErrorsFor(relativePath, "dimensions") = 0

\* the relative path without its extension and without a leading prefix
Stripped(prefix) ==
    LET bare == SubSeq(relativePath, 1,
                       Len(relativePath) - Len(extname(Entry.name)))
    IN IF StartsWith(bare, prefix)
       THEN SubSeq(bare, Len(prefix) + 1, Len(bare))
       ELSE bare

IsHexAddress(s, n) ==
    /\ Len(s) = n + 2
    /\ toLowerCase(SubSeq(s, 1, 2)) = <<"0", "x">>
    /\ \A i \in 3..Len(s) :
          toLowerCase(<<s[i]>>)[1] \in Digits \cup {"a","b","c","d","e","f"}

\* C8: once the naming rule has run for an image file, a path containing
\* "tokens" has a naming error exactly when its name, extension and
\* "tokens/" stripped, is not 0x and 40 hex digits; otherwise a path
\* containing "validators" likewise with 96; any other path has none
C8_NamingRule ==
    pc = "dimensions" =>
        IF includes(relativePath, TOKENS)
        THEN /\ ErrorsFor(relativePath, "token-name") =
                   IF IsHexAddress(Stripped(TOKENS \o <<"/">>), 40)
                   THEN 0 ELSE 1
             /\ ErrorsFor(relativePath, "validator-name") = 0
        ELSE IF includes(relativePath, VALIDATORS)
        THEN /\ ErrorsFor(relativePath, "validator-name") =
                   IF IsHexAddress(Stripped(VALIDATORS \o <<"/">>), 96)
                   THEN 0 ELSE 1
             /\ ErrorsFor(relativePath, "token-name") = 0
        ELSE /\ ErrorsFor(relativePath, "token-name") = 0
             /\ ErrorsFor(relativePath, "validator-name") = 0

\* C9: the warnings are, in order and with repetitions, the references of
\* tokens, validators and vaults for which no <id>.png/.jpg/.jpeg is in the
\* asset folder: at any time a prefix of them, all of them at exit 0
C9_Warnings ==
    /\ IsPrefix(metaErrors, ExpectedWarnings)
    /\ (pc = "exited" /\ exitCode = 0) =>
          /\ metaErrors = ExpectedWarnings
          /\ ItemsOn("warn") = ExpectedWarnings

\* C9 witness: a run that ended with two warnings for the same identifier
C9_Witness ==
    /\ pc = "exited"
    /\ exitCode = 0
    /\ Len(metaErrors) = 2
    /\ metaErrors[1] = metaErrors[2]

ZeroWord(buffer, offset) == \A k \in 1..4 : buffer[offset + k] = 0

\* C10: for a .png file whose dimensions were read, the transparency step
\* goes on to the next entry, having recorded one error exactly when one of
\* the words at offsets 0, width-1, width*(height-1) mod length and
\* min(width*height-1, length-4) is zero; for any other file it records none
C10_TransparencyRule ==
    [][pc = "transparency" =>
          IF ext = PNG /\ dimensions # Null
          THEN /\ pc' = "entry"
               /\ LET b == CurrentBuffer
                      w == dimensions.width
                      h == dimensions.height
                  IN errors' =
                       IF \/ ZeroWord(b, 0)
                          \/ ZeroWord(b, w - 1)
                          \/ ZeroWord(b, (w * (h - 1)) % Len(b))
                          \/ ZeroWord(b, Min(w * h - 1, Len(b) - 4))
                       THEN Append(errors, AssetError("transparent"))
                       ELSE errors
          ELSE errors' = errors]_vars

====
